---- MODULE Spec2Model ----
(***************************************************************************)
(* A model of hdr-png-converter: the PNG chunk writer of hdr_convert.py,   *)
(* the chunk reader and HDR analyzer of png_hdr_analyzer.py, the colour    *)
(* profile extractor and the conversion driver.  Files are sequences of    *)
(* bytes (0..255); 32-bit quantities are kept as byte sequences or as      *)
(* pairs of 16-bit halves so that no intermediate exceeds 2^31 - 1.        *)
(***************************************************************************)
EXTENDS Integers, Sequences, FiniteSets, TLC

(***************************************************************************)
(* Bytes and fixed-width integers (struct.pack / struct.unpack)            *)
(***************************************************************************)
Byte == 0..255

\* bytes[lo:hi] of Python (0-based, hi exclusive, both clamped to the length).
Slice(b, lo, hi) ==
  LET h == IF hi > Len(b) THEN Len(b) ELSE hi
      l == IF lo > h THEN h ELSE lo
  IN  SubSeq(b, l + 1, h)

\* struct.pack('>H', n)
pack_H(n) == << (n \div 256) % 256, n % 256 >>

\* struct.pack('>I', n), for n < 2^31
pack_I(n) ==
  << (n \div 16777216) % 256, (n \div 65536) % 256, (n \div 256) % 256, n % 256 >>

\* struct.unpack('>I', b)[0] for a 4-byte b whose value is below 2^31
unpack_I(b) == ((b[1] * 256 + b[2]) * 256 + b[3]) * 256 + b[4]

\* Exclusive or of two 4-bit values, bit by bit.
XorNibble ==
  [a \in 0..15, b \in 0..15 |->
     (((a % 2) + (b % 2)) % 2)
     + 2 * ((((a \div 2) % 2) + ((b \div 2) % 2)) % 2)
     + 4 * ((((a \div 4) % 2) + ((b \div 4) % 2)) % 2)
     + 8 * ((((a \div 8) % 2) + ((b \div 8) % 2)) % 2)]

Xor8(a, b) == 16 * XorNibble[a \div 16, b \div 16] + XorNibble[a % 16, b % 16]

Xor16(a, b) == 256 * Xor8(a \div 256, b \div 256) + Xor8(a % 256, b % 256)

(***************************************************************************)
(* zlib.crc32: the table-driven CRC-32 (reflected polynomial EDB88320,     *)
(* initial value and final complement FFFFFFFF).  A 32-bit register is the *)
(* pair <<high 16 bits, low 16 bits>>.                                     *)
(***************************************************************************)
CrcPolyHi == 60856   \* 0xEDB8
CrcPolyLo == 33568   \* 0x8320

\* One bit of the table construction: c = (c & 1) ? POLY ^ (c >> 1) : c >> 1
CrcShift(c) ==
  LET hi == c[1] \div 2
      lo == (c[2] \div 2) + (c[1] % 2) * 32768
  IN  IF c[2] % 2 = 1
      THEN << Xor16(hi, CrcPolyHi), Xor16(lo, CrcPolyLo) >>
      ELSE << hi, lo >>

CrcTable ==
  [n \in 0..255 |->
     CrcShift(CrcShift(CrcShift(CrcShift(
     CrcShift(CrcShift(CrcShift(CrcShift(<<0, n>>))))))))]

\* crc = table[(crc ^ byte) & 0xFF] ^ (crc >> 8)
CrcStep(c, byte) ==
  LET t  == CrcTable[Xor8(c[2] % 256, byte)]
      hi == c[1] \div 256
      lo == (c[2] \div 256) + (c[1] % 256) * 256
  IN  << Xor16(hi, t[1]), Xor16(lo, t[2]) >>

\* The register after bytes b[lo..hi], split in halves to keep the
\* evaluation depth logarithmic in the length (the test on left makes the
\* left half's register a value before the right half starts).
RECURSIVE CrcFold(_, _, _, _)
CrcFold(c, b, lo, hi) ==
  IF lo > hi THEN c
  ELSE IF lo = hi THEN CrcStep(c, b[lo])
  ELSE LET mid  == (lo + hi) \div 2
           left == CrcFold(c, b, lo, mid)
       IN  IF left[1] >= 0 THEN CrcFold(left, b, mid + 1, hi) ELSE left

\* struct.pack('>I', zlib.crc32(b) & 0xffffffff)
crc32_bytes(b) ==
  LET c == CrcFold(<<65535, 65535>>, b, 1, Len(b))
  IN  pack_H(Xor16(c[1], 65535)) \o pack_H(Xor16(c[2], 65535))

(***************************************************************************)
(* zlib.compress / zlib.decompress.  The primitive is modelled by the zlib *)
(* container (RFC 1950) around stored DEFLATE blocks (RFC 1951, BTYPE 00): *)
(* a 2-byte header, blocks of at most 65535 bytes each preceded by         *)
(* BFINAL/BTYPE, LEN and its complement (little-endian), and the Adler-32  *)
(* of the uncompressed data, big-endian.                                   *)
(***************************************************************************)
AdlerMod == 65521
StoredMax == 65535

\* Sum of b[lo..hi] modulo 65521.
RECURSIVE AdlerA(_, _, _)
AdlerA(b, lo, hi) ==
  IF lo > hi THEN 0
  ELSE IF lo = hi THEN b[lo]
  ELSE LET mid == (lo + hi) \div 2
       IN  (AdlerA(b, lo, mid) + AdlerA(b, mid + 1, hi)) % AdlerMod

\* Sum over i in lo..hi of (n - i + 1) * b[i], modulo 65521 (n = Len(b)).
RECURSIVE AdlerB(_, _, _, _)
AdlerB(b, n, lo, hi) ==
  IF lo > hi THEN 0
  ELSE IF lo = hi THEN (((n - lo + 1) % AdlerMod) * b[lo]) % AdlerMod
  ELSE LET mid == (lo + hi) \div 2
       IN  (AdlerB(b, n, lo, mid) + AdlerB(b, n, mid + 1, hi)) % AdlerMod

\* struct.pack('>I', zlib.adler32(b)): s2 in the high half, s1 in the low.
adler32_bytes(b) ==
  LET n  == Len(b)
      s1 == (1 + AdlerA(b, 1, n)) % AdlerMod
      s2 == ((n % AdlerMod) + AdlerB(b, n, 1, n)) % AdlerMod
  IN  pack_H(s2) \o pack_H(s1)

\* The stored blocks of data[from..], the last one flagged final.
RECURSIVE StoredBlocks(_, _)
StoredBlocks(data, from) ==
  LET rest == Len(data) - from + 1
      n    == IF rest > StoredMax THEN StoredMax ELSE rest
      last == rest <= StoredMax
  IN  << IF last THEN 1 ELSE 0, n % 256, n \div 256,
         255 - (n % 256), 255 - (n \div 256) >>
      \o SubSeq(data, from, from + n - 1)
      \o (IF last THEN <<>> ELSE StoredBlocks(data, from + n))

\* zlib.compress(data, 9): header 78 DA (deflate, 32K window, level flag 3).
zlib_compress(data) ==
  <<120, 218>> \o StoredBlocks(data, 1) \o adler32_bytes(data)

\* What zlib.decompress does: it returns the data (ok) or raises zlib.error.
ZlibError == [ok |-> FALSE, data |-> <<>>, next |-> 0]

\* The data of the stored blocks that start at 1-based offset p of z, with
\* the offset after the final block; ZlibError when a block is cut short,
\* is not a stored block, or has inconsistent lengths.
RECURSIVE InflateStored(_, _, _)
InflateStored(z, p, acc) ==
  IF p + 4 > Len(z) THEN ZlibError
  ELSE IF (z[p] \div 2) % 4 # 0 THEN ZlibError
  ELSE LET n == z[p + 1] + 256 * z[p + 2]
       IN  IF z[p + 3] # 255 - z[p + 1] \/ z[p + 4] # 255 - z[p + 2] THEN ZlibError
           ELSE IF p + 4 + n > Len(z) THEN ZlibError
           ELSE LET out == acc \o SubSeq(z, p + 5, p + 4 + n)
                IN  IF z[p] % 2 = 1
                    THEN [ok |-> TRUE, data |-> out, next |-> p + 5 + n]
                    ELSE InflateStored(z, p + 5 + n, out)

\* zlib.decompress(z).  Bytes after the Adler-32 trailer are ignored, as
\* zlib.decompress ignores them.
zlib_decompress(z) ==
  IF Len(z) < 2 THEN [ok |-> FALSE, data |-> <<>>]
  ELSE IF z[1] % 16 # 8 \/ z[1] \div 16 > 7 THEN [ok |-> FALSE, data |-> <<>>]
  ELSE IF (z[1] * 256 + z[2]) % 31 # 0 THEN [ok |-> FALSE, data |-> <<>>]
  ELSE IF (z[2] \div 32) % 2 = 1 THEN [ok |-> FALSE, data |-> <<>>]
  ELSE LET r == InflateStored(z, 3, <<>>)
       IN  IF ~r.ok THEN [ok |-> FALSE, data |-> <<>>]
           ELSE IF r.next + 3 > Len(z) THEN [ok |-> FALSE, data |-> <<>>]
           ELSE IF SubSeq(z, r.next, r.next + 3) # adler32_bytes(r.data)
                THEN [ok |-> FALSE, data |-> <<>>]
           ELSE [ok |-> TRUE, data |-> r.data]

(***************************************************************************)
(* Bounds of the inputs                                                    *)
(***************************************************************************)
MaxHeight == 2       \* image heights 0..MaxHeight
MaxWidth == 2        \* image widths 0..MaxWidth
WideWidth == 1366    \* one wide image, whose scanline exceeds one IDAT chunk
MaxSeed == 2         \* pixel patterns 0..MaxSeed

(***************************************************************************)
(* Python values: None is the empty tuple and a present value x is <<x>>.  *)
(***************************************************************************)
None == <<>>
Some(x) == <<x>>

\* Chunk type tags and the file signature, as bytes.
T_IHDR == <<73, 72, 68, 82>>
T_IDAT == <<73, 68, 65, 84>>
T_IEND == <<73, 69, 78, 68>>
T_iCCP == <<105, 67, 67, 80>>
T_gAMA == <<103, 65, 77, 65>>
T_cHRM == <<99, 72, 82, 77>>
T_sRGB == <<115, 82, 71, 66>>
T_cICP == <<99, 73, 67, 80>>
T_mDCv == <<109, 68, 67, 118>>
T_cLLi == <<99, 76, 76, 105>>
T_tEXt == <<116, 69, 88, 116>>
png_signature == <<137, 80, 78, 71, 13, 10, 26, 10>>

(***************************************************************************)
(* The 16-bit image handed to the writer: a numpy array of shape           *)
(* (height, width, 3).  px[y][x][c] is the sample of row y, column x,      *)
(* channel c (1-based here).                                               *)
(***************************************************************************)
PatternSample(seed, y, x, c) ==
  (seed * 21845 + (y - 1) * 4099 + (x - 1) * 259 + (c - 1) * 257) % 65536

Image(height, width, seed) ==
  [height |-> height, width |-> width,
   px |-> [y \in 1..height |-> [x \in 1..width |->
             [c \in 1..3 |-> PatternSample(seed, y, x, c)]]]]

(***************************************************************************)
(* hdr_convert.py: make_chunk and save_16bit_png_with_icc                  *)
(***************************************************************************)
\* The checksum field of a chunk: CRC-32 of type ++ data.
chunk_crc_mutant(chunk_type, data) == crc32_bytes(data)
chunk_crc(chunk_type, data) == crc32_bytes(chunk_type \o data)

make_chunk(chunk_type, data) ==
  pack_I(Len(data)) \o chunk_type \o data \o chunk_crc(chunk_type, data)

\* The byte at 0-based offset i of raw_data: each scanline is a filter byte
\* 0 followed by struct.pack('>HHH', r, g, b) for each pixel of the row.
raw_byte_mutant(img, i) ==
  LET stride == 1 + 6 * img.width
      off    == i % stride
      s      == img.px[(i \div stride) + 1][((off - 1) \div 6) + 1][(((off - 1) % 6) \div 2) + 1]
  IN  IF off = 0 THEN 0
      ELSE IF (off - 1) % 2 = 0 THEN s % 256 ELSE s \div 256
raw_byte(img, i) ==
  LET stride == 1 + 6 * img.width
      off    == i % stride
      s      == img.px[(i \div stride) + 1][((off - 1) \div 6) + 1][(((off - 1) % 6) \div 2) + 1]
  IN  IF off = 0 THEN 0
      ELSE IF (off - 1) % 2 = 0 THEN s \div 256 ELSE s % 256

raw_data(img) ==
  [i \in 1..(img.height * (1 + 6 * img.width)) |-> raw_byte(img, i - 1)]

chunk_size == 8192

\* for i in range(0, len(compressed_data), chunk_size): the start offsets.
idat_starts(n) == { i \in 0..(n - 1) : i % chunk_size = 0 }

RECURSIVE idat_chunks(_, _)
idat_chunks(compressed_data, i) ==
  IF i \notin idat_starts(Len(compressed_data)) THEN <<>>
  ELSE make_chunk(T_IDAT, Slice(compressed_data, i, i + chunk_size))
       \o idat_chunks(compressed_data, i + chunk_size)

\* if icc_profile: a profile that is None or empty is not embedded.
icc_truthy_mutant(icc_profile) == icc_profile # None
icc_truthy(icc_profile) == icc_profile # None /\ Len(icc_profile[1]) > 0

profile_name == <<80, 81, 32, 72, 68, 82, 0>>   \* b'PQ HDR\x00'

iccp_chunk(icc_profile) ==
  IF icc_truthy(icc_profile)
  THEN make_chunk(T_iCCP, profile_name \o <<0>> \o zlib_compress(icc_profile[1]))
  ELSE <<>>

\* The bytes save_16bit_png_with_icc writes to output_path.
save_16bit_png_with_icc(img, icc_profile) ==
  LET ihdr_data == pack_I(img.width) \o pack_I(img.height) \o <<16, 2, 0, 0, 0>>
      compressed_data == zlib_compress(raw_data(img))
  IN  png_signature
      \o make_chunk(T_IHDR, ihdr_data)
      \o iccp_chunk(icc_profile)
      \o idat_chunks(compressed_data, 0)
      \o make_chunk(T_IEND, <<>>)

(***************************************************************************)
(* png_hdr_analyzer.py: read_png_chunks                                    *)
(***************************************************************************)
sig_ok_mutant(signature) == Slice(signature, 0, 4) = Slice(png_signature, 0, 4)
sig_ok(signature) == signature = png_signature

\* A chunk record.  'crc' is the checksum field as its four big-endian
\* bytes (the unsigned 32-bit value struct.unpack('>I') yields); it is the
\* field as read, whatever the payload.
ChunkRecord_mutant(chunk_type, length, data, crc) ==
  [type |-> chunk_type, length |-> length, data |-> data,
   crc |-> crc32_bytes(chunk_type \o data)]
ChunkRecord(chunk_type, length, data, crc) ==
  [type |-> chunk_type, length |-> length, data |-> data, crc |-> crc]

Raised(exc) == [status |-> exc, chunks |-> <<>>]
NotPng == "ValueError: Not a valid PNG file"
Returned(chunks) == [status |-> "ok", chunks |-> chunks]

\* f.read(n) at 0-based position pos returns Slice(file, pos, pos + n).
\* The while loop of read_png_chunks with the file position at pos.
loop_ends_mutant(chunk_type) == FALSE
loop_ends(chunk_type) == chunk_type = T_IEND

RECURSIVE read_loop(_, _, _)
read_loop(file, pos, chunks) ==
  LET length_data == Slice(file, pos, pos + 4)
  IN  IF Len(length_data) < 4 THEN Returned(chunks)
      ELSE
        LET length == unpack_I(length_data)
            tbytes == Slice(file, pos + 4, pos + 8)
            avail  == Len(file) - (pos + 4 + Len(tbytes))
            n      == IF length > avail THEN avail ELSE length
            dstart == pos + 4 + Len(tbytes)
            data   == Slice(file, dstart, dstart + n)
            crc    == Slice(file, dstart + n, dstart + n + 4)
        IN  IF \E k \in 1..Len(tbytes) : tbytes[k] > 127
            THEN Raised("UnicodeDecodeError")
            ELSE IF Len(crc) # 4 THEN Raised("struct.error")
            ELSE LET next == Append(chunks, ChunkRecord(tbytes, length, data, crc))
                 IN  IF loop_ends(tbytes) THEN Returned(next)
                     ELSE read_loop(file, dstart + n + 4, next)

read_png_chunks(file) ==
  IF ~sig_ok(Slice(file, 0, 8)) THEN Raised(NotPng)
  ELSE read_loop(file, 8, <<>>)

\* parse_ihdr(data): struct.unpack('>II', data[:8]) raises struct.error on
\* fewer than 8 bytes, and data[8]..data[12] raise IndexError on fewer
\* than 13.
color_type_name(color_type) ==
  CASE color_type = 0 -> "Grayscale"
    [] color_type = 2 -> "RGB (Truecolor)"
    [] color_type = 3 -> "Indexed-color (Palette)"
    [] color_type = 4 -> "Grayscale with Alpha"
    [] color_type = 6 -> "RGBA (Truecolor with Alpha)"
    [] OTHER -> "Unknown"

parse_ihdr(data) ==
  IF Len(Slice(data, 0, 8)) # 8 THEN [ok |-> FALSE, error |-> "struct.error"]
  ELSE IF Len(data) < 13 THEN [ok |-> FALSE, error |-> "IndexError"]
  ELSE [ok |-> TRUE,
        width |-> unpack_I(Slice(data, 0, 4)),
        height |-> unpack_I(Slice(data, 4, 8)),
        bit_depth |-> data[9],
        color_type |-> data[10],
        color_type_name |-> color_type_name(data[10]),
        compression |-> data[11],
        filter_method |-> data[12],
        interlace |-> data[13]]

(***************************************************************************)
(* png_hdr_analyzer.py: the metadata decoders.  A decoder returns a record *)
(* with ok = TRUE, or ok = FALSE and the exception it raises.  A value     *)
(* divided by a fixed divisor is kept as the pair <<raw, divisor>>.        *)
(***************************************************************************)
Fails(exc) == [ok |-> FALSE, error |-> exc]

\* struct.unpack('>H', b)[0]
unpack_H(b) == b[1] * 256 + b[2]

\* parse_gama(data): struct.unpack('>I', data) needs exactly 4 bytes.
parse_gama(data) ==
  IF Len(data) # 4 THEN Fails("struct.error")
  ELSE [ok |-> TRUE, gamma |-> << unpack_I(data), 100000 >>, raw_value |-> unpack_I(data)]

\* parse_chrm(data): struct.unpack('>IIIIIIII', data) needs exactly 32 bytes.
parse_chrm(data) ==
  IF Len(data) # 32 THEN Fails("struct.error")
  ELSE LET v(k) == << unpack_I(Slice(data, 4 * k, 4 * k + 4)), 100000 >>
       IN  [ok |-> TRUE,
            white_point_x |-> v(0), white_point_y |-> v(1),
            red_x |-> v(2), red_y |-> v(3),
            green_x |-> v(4), green_y |-> v(5),
            blue_x |-> v(6), blue_y |-> v(7)]

\* parse_srgb(data): data[0] raises IndexError on an empty payload.
parse_srgb(data) ==
  IF Len(data) < 1 THEN Fails("IndexError")
  ELSE [ok |-> TRUE,
        rendering_intent |-> data[1],
        intent_name |->
          CASE data[1] = 0 -> "Perceptual"
            [] data[1] = 1 -> "Relative colorimetric"
            [] data[1] = 2 -> "Saturation"
            [] data[1] = 3 -> "Absolute colorimetric"
            [] OTHER -> "Unknown"]

Unknown(n) == "Unknown (" \o ToString(n) \o ")"

primaries_names(n) ==
  CASE n = 1 -> "BT.709 (sRGB)"
    [] n = 4 -> "BT.470M"
    [] n = 5 -> "BT.601 (625)"
    [] n = 6 -> "BT.601 (525)"
    [] n = 7 -> "SMPTE 240M"
    [] n = 8 -> "Generic film"
    [] n = 9 -> "BT.2020 / BT.2100"
    [] n = 10 -> "SMPTE ST 428-1 (XYZ)"
    [] n = 11 -> "SMPTE RP 431-2 (DCI-P3)"
    [] n = 12 -> "SMPTE EG 432-1 (Display P3)"
    [] n = 22 -> "EBU Tech 3213-E"
    [] OTHER -> Unknown(n)

transfer_names(n) ==
  CASE n = 1 -> "BT.709 / BT.1361"
    [] n = 4 -> "BT.470M (Gamma 2.2)"
    [] n = 5 -> "BT.470BG (Gamma 2.8)"
    [] n = 6 -> "BT.601 / SMPTE 170M"
    [] n = 7 -> "SMPTE 240M"
    [] n = 8 -> "Linear"
    [] n = 9 -> "Logarithmic (100:1)"
    [] n = 10 -> "Logarithmic (100*sqrt(10):1)"
    [] n = 11 -> "IEC 61966-2-4"
    [] n = 12 -> "BT.1361 Extended"
    [] n = 13 -> "sRGB / sYCC"
    [] n = 14 -> "BT.2020 (10-bit)"
    [] n = 15 -> "BT.2020 (12-bit)"
    [] n = 16 -> "SMPTE ST 2084 (PQ / HDR10)"
    [] n = 17 -> "SMPTE ST 428-1"
    [] n = 18 -> "ARIB STD-B67 (HLG)"
    [] OTHER -> Unknown(n)

matrix_names(n) ==
  CASE n = 0 -> "Identity (RGB)"
    [] n = 1 -> "BT.709"
    [] n = 4 -> "FCC"
    [] n = 5 -> "BT.470BG"
    [] n = 6 -> "BT.601"
    [] n = 7 -> "SMPTE 240M"
    [] n = 8 -> "YCgCo"
    [] n = 9 -> "BT.2020 non-constant luminance"
    [] n = 10 -> "BT.2020 constant luminance"
    [] n = 11 -> "SMPTE ST 2085"
    [] n = 12 -> "Chromaticity-derived non-constant luminance"
    [] n = 13 -> "Chromaticity-derived constant luminance"
    [] n = 14 -> "ICtCp"
    [] OTHER -> Unknown(n)

\* parse_cicp(data): data[0]..data[3] raise IndexError on fewer than 4 bytes.
parse_cicp(data) ==
  IF Len(data) < 4 THEN Fails("IndexError")
  ELSE [ok |-> TRUE,
        color_primaries |-> data[1],
        color_primaries_name |-> primaries_names(data[1]),
        transfer_characteristics |-> data[2],
        transfer_name |-> transfer_names(data[2]),
        matrix_coefficients |-> data[3],
        matrix_name |-> matrix_names(data[3]),
        video_full_range |-> data[4],
        full_range_name |->
          IF data[4] # 0 THEN "Full range (0-255)" ELSE "Limited range (16-235)"]

\* data.index(b'\x00'): the 0-based position of the first NUL, -1 if none.
RECURSIVE index_nul(_, _)
index_nul(data, i) ==
  IF i >= Len(data) THEN -1
  ELSE IF data[i + 1] = 0 THEN i
  ELSE index_nul(data, i + 1)

\* bytes.decode('ascii', errors='ignore'): bytes above 127 are dropped.  Text
\* is kept as its sequence of code points.
decode_ascii_ignore(b) == SelectSeq(b, LAMBDA c : c <= 127)

\* str.strip(chars): leading and trailing code points in chars are removed.
RECURSIVE lstrip(_, _)
lstrip(t, chars) ==
  IF t # <<>> /\ Head(t) \in chars THEN lstrip(Tail(t), chars) ELSE t

RECURSIVE rstrip(_, _)
rstrip(t, chars) ==
  IF t # <<>> /\ t[Len(t)] \in chars THEN rstrip(SubSeq(t, 1, Len(t) - 1), chars) ELSE t

strip(t, chars) == rstrip(lstrip(t, chars), chars)

\* The ASCII code points str.strip() removes by default.
Whitespace == { 9, 10, 11, 12, 13, 28, 29, 30, 31, 32 }

\* f'{n:02d}' and f'{n:04d}'
fmt02(n) == IF n < 10 THEN "0" \o ToString(n) ELSE ToString(n)
fmt04(n) ==
  IF n < 10 THEN "000" \o ToString(n)
  ELSE IF n < 100 THEN "00" \o ToString(n)
  ELSE IF n < 1000 THEN "0" \o ToString(n)
  ELSE ToString(n)

\* platform_names.get(platform, platform), names as code points:
\* 'APPL' -> 'Apple', 'MSFT' -> 'Microsoft', 'SGI ' -> 'Silicon Graphics',
\* 'SUNW' -> 'Sun Microsystems', '' -> 'Unspecified'.
platform_names(platform) ==
  CASE platform = <<65, 80, 80, 76>> -> <<65, 112, 112, 108, 101>>
    [] platform = <<77, 83, 70, 84>> -> <<77, 105, 99, 114, 111, 115, 111, 102, 116>>
    [] platform = <<83, 71, 73, 32>> ->
         <<83, 105, 108, 105, 99, 111, 110, 32, 71, 114, 97, 112, 104, 105, 99, 115>>
    [] platform = <<83, 85, 78, 87>> ->
         <<83, 117, 110, 32, 77, 105, 99, 114, 111, 115, 121, 115, 116, 101, 109, 115>>
    [] platform = <<>> -> <<85, 110, 115, 112, 101, 99, 105, 102, 105, 101, 100>>
    [] OTHER -> platform

icc_intent_names(n) ==
  CASE n = 0 -> "Perceptual"
    [] n = 1 -> "Relative colorimetric"
    [] n = 2 -> "Saturation"
    [] n = 3 -> "Absolute colorimetric"
    [] OTHER -> Unknown(n)

\* The icc_info dict of parse_iccp: empty unless the profile has at least
\* the 128 bytes of an ICC header.
icc_info(profile_data) ==
  IF Len(profile_data) < 128 THEN [present |-> FALSE]
  ELSE
    [present |-> TRUE,
     profile_size |-> unpack_I(Slice(profile_data, 0, 4)),
     preferred_cmm |-> strip(decode_ascii_ignore(Slice(profile_data, 4, 8)), {0}),
     version |-> ToString(profile_data[9]) \o "."
                 \o ToString((profile_data[10] \div 16) % 16) \o "."
                 \o ToString(profile_data[10] % 16),
     device_class |-> strip(decode_ascii_ignore(Slice(profile_data, 12, 16)), Whitespace),
     color_space |-> strip(decode_ascii_ignore(Slice(profile_data, 16, 20)), Whitespace),
     pcs |-> strip(decode_ascii_ignore(Slice(profile_data, 20, 24)), Whitespace),
     creation_date |->
       fmt04(unpack_H(Slice(profile_data, 24, 26))) \o "-"
       \o fmt02(unpack_H(Slice(profile_data, 26, 28))) \o "-"
       \o fmt02(unpack_H(Slice(profile_data, 28, 30))) \o " "
       \o fmt02(unpack_H(Slice(profile_data, 30, 32))) \o ":"
       \o fmt02(unpack_H(Slice(profile_data, 32, 34))) \o ":"
       \o fmt02(unpack_H(Slice(profile_data, 34, 36))),
     signature |-> decode_ascii_ignore(Slice(profile_data, 36, 40)),
     platform |-> platform_names(strip(decode_ascii_ignore(Slice(profile_data, 40, 44)), {0})),
     rendering_intent |-> icc_intent_names(unpack_I(Slice(profile_data, 64, 68)))]

\* parse_iccp without its try / except: a failure of zlib.decompress leaves
\* the function as an exception.
parse_iccp_mutant(data) ==
  LET null_pos == index_nul(data, 0)
  IN  IF null_pos < 0 THEN Fails("ValueError")
      ELSE IF null_pos + 1 >= Len(data) THEN Fails("IndexError")
      ELSE LET compressed_profile == Slice(data, null_pos + 2, Len(data))
               profile == zlib_decompress(compressed_profile)
           IN  IF profile.ok
               THEN [ok |-> TRUE,
                     profile_name |-> Slice(data, 0, null_pos),
                     compression_method |-> data[null_pos + 2],
                     compressed_size |-> Len(compressed_profile),
                     decompressed_size |-> Len(profile.data),
                     icc_info |-> Some(icc_info(profile.data)),
                     error |-> None]
               ELSE Fails("zlib.error")

\* parse_iccp(data): data.index raises ValueError when there is no NUL and
\* data[null_pos + 1] raises IndexError when the NUL is the last byte; a
\* failure of zlib.decompress is caught and returned in the record.
parse_iccp(data) ==
  LET null_pos == index_nul(data, 0)
  IN  IF null_pos < 0 THEN Fails("ValueError")
      ELSE IF null_pos + 1 >= Len(data) THEN Fails("IndexError")
      ELSE LET compressed_profile == Slice(data, null_pos + 2, Len(data))
               profile == zlib_decompress(compressed_profile)
           IN  IF profile.ok
               THEN [ok |-> TRUE,
                     profile_name |-> Slice(data, 0, null_pos),
                     compression_method |-> data[null_pos + 2],
                     compressed_size |-> Len(compressed_profile),
                     decompressed_size |-> Len(profile.data),
                     icc_info |-> Some(icc_info(profile.data)),
                     error |-> None]
               ELSE [ok |-> TRUE,
                     profile_name |-> Slice(data, 0, null_pos),
                     compression_method |-> data[null_pos + 2],
                     compressed_size |-> None,
                     decompressed_size |-> None,
                     icc_info |-> None,
                     error |-> Some("zlib.error")]

\* parse_mdcv(data): struct.unpack('>HHHHHHHHII', data) needs exactly 24 bytes.
parse_mdcv(data) ==
  IF Len(data) # 24 THEN Fails("struct.error")
  ELSE LET h(k) == << unpack_H(Slice(data, 2 * k, 2 * k + 2)), 50000 >>
       IN  [ok |-> TRUE,
            display_primaries_red_x |-> h(0), display_primaries_red_y |-> h(1),
            display_primaries_green_x |-> h(2), display_primaries_green_y |-> h(3),
            display_primaries_blue_x |-> h(4), display_primaries_blue_y |-> h(5),
            white_point_x |-> h(6), white_point_y |-> h(7),
            max_luminance |-> << unpack_I(Slice(data, 16, 20)), 10000 >>,
            min_luminance |-> << unpack_I(Slice(data, 20, 24)), 10000 >>]

\* parse_clli(data): struct.unpack('>II', data) needs exactly 8 bytes.
parse_clli(data) ==
  IF Len(data) # 8 THEN Fails("struct.error")
  ELSE [ok |-> TRUE,
        max_content_light_level |-> unpack_I(Slice(data, 0, 4)),
        max_frame_average_light_level |-> unpack_I(Slice(data, 4, 8))]

(***************************************************************************)
(* png_hdr_analyzer.py: analyze_png_hdr and main                           *)
(***************************************************************************)
\* hdr_info = {'has_hdr': False, 'hdr_type': None}; the keys added later
\* ('high_bit_depth', 'cicp', 'mdcv', 'clli') are absent (FALSE, None).
hdr_info_init ==
  [has_hdr |-> FALSE, hdr_type |-> None, high_bit_depth |-> FALSE,
   cicp |-> None, mdcv |-> None, clli |-> None]

\* The hdr_type after a cICP chunk: set on 16 and 18, otherwise left alone.
hdr_type_after(hdr_type, transfer_characteristics) ==
  IF transfer_characteristics = 16 THEN Some("HDR10 (PQ)")
  ELSE IF transfer_characteristics = 18 THEN Some("HLG")
  ELSE hdr_type

\* One iteration of the second loop of analyze_png_hdr: the hdr_info after
\* the chunk (ok), or the exception its decoder raises.  'decoded' tells
\* whether the chunk's type has a decoder.
analyze_chunk(hdr_info, chunk) ==
  LET data == chunk.data
      done(h) == [ok |-> TRUE, hdr_info |-> h, decoded |-> TRUE]
      raise(r) == [ok |-> FALSE, error |-> r.error]
  IN  CASE chunk.type = T_IHDR ->
             LET ihdr == parse_ihdr(data)
             IN  IF ~ihdr.ok THEN raise(ihdr)
                 ELSE IF ihdr.bit_depth = 16
                      THEN done([hdr_info EXCEPT !.has_hdr = TRUE, !.high_bit_depth = TRUE])
                      ELSE done(hdr_info)
        [] chunk.type = T_gAMA ->
             LET gama == parse_gama(data)
             IN  IF ~gama.ok THEN raise(gama) ELSE done(hdr_info)
        [] chunk.type = T_cHRM ->
             LET chrm == parse_chrm(data)
             IN  IF ~chrm.ok THEN raise(chrm) ELSE done(hdr_info)
        [] chunk.type = T_sRGB ->
             LET srgb == parse_srgb(data)
             IN  IF ~srgb.ok THEN raise(srgb) ELSE done(hdr_info)
        [] chunk.type = T_cICP ->
             LET cicp == parse_cicp(data)
             IN  IF ~cicp.ok THEN raise(cicp)
                 ELSE done([hdr_info EXCEPT
                              !.has_hdr = TRUE,
                              !.cicp = Some(cicp),
                              !.hdr_type = hdr_type_after(@, cicp.transfer_characteristics)])
        [] chunk.type = T_iCCP ->
             LET iccp == parse_iccp(data)
             IN  IF ~iccp.ok THEN raise(iccp) ELSE done(hdr_info)
        [] chunk.type = T_mDCv ->
             LET mdcv == parse_mdcv(data)
             IN  IF ~mdcv.ok THEN raise(mdcv)
                 ELSE done([hdr_info EXCEPT !.has_hdr = TRUE, !.mdcv = Some(mdcv)])
        [] chunk.type = T_cLLi ->
             LET clli == parse_clli(data)
             IN  IF ~clli.ok THEN raise(clli)
                 ELSE done([hdr_info EXCEPT !.has_hdr = TRUE, !.clli = Some(clli)])
        [] OTHER -> [ok |-> TRUE, hdr_info |-> hdr_info, decoded |-> FALSE]

\* What a call of analyze_png_hdr, and main around it, leaves behind:
\*   status    "ok" when analyze_png_hdr returned, else the exception raised
\*   hdr_info  Some(the returned summary), None when it raised
\*   sections  the positions of the chunks whose section was decoded and
\*             printed before the end
\*   exit_code 0 when main returns, 1 when it prints the error and exits
Analysis(status, hdr_info, sections) ==
  [status |-> status, hdr_info |-> hdr_info, sections |-> sections,
   exit_code |-> IF status = "ok" THEN 0 ELSE 1]

\* for chunk in chunks: ... from position k on.  An exception of a decoder
\* leaves the loop: nothing catches it before main does.
RECURSIVE analyze_loop(_, _, _, _)
analyze_loop(chunks, k, hdr_info, sections) ==
  IF k > Len(chunks) THEN Analysis("ok", Some(hdr_info), sections)
  ELSE LET r == analyze_chunk(hdr_info, chunks[k])
       IN  IF ~r.ok THEN Analysis(r.error, None, sections)
           ELSE analyze_loop(chunks, k + 1, r.hdr_info,
                             IF r.decoded THEN Append(sections, k) ELSE sections)

\* analyze_png_hdr(filepath) as main calls it: an exception of
\* read_png_chunks or of a decoder ends the analysis.
analyze_png_hdr(bytes) ==
  LET r == read_png_chunks(bytes)
  IN  IF r.status # "ok" THEN Analysis(r.status, None, <<>>)
      ELSE analyze_loop(r.chunks, 1, hdr_info_init, <<>>)

(***************************************************************************)
(* Streams handed to the reader: the signature (or something else), chunks *)
(* of a catalogue with correct length and checksum fields, an IEND or      *)
(* none, and possibly a tail that is cut short or padded.                  *)
(***************************************************************************)
MaxChunks == 2       \* crafted streams hold 0..MaxChunks catalogue chunks
MaxCut == 11         \* a damaged stream loses 1..MaxCut bytes at its end
MaxPad == 3          \* or gains 1..MaxPad bytes after its last chunk

Chunk(t, d) == [t |-> t, d |-> d]

SmallProfile == <<97, 99, 115, 112>>

\* A profile that is just the 128-byte ICC header: size 128, CMM 'lcms',
\* version 4.3.0, class 'mntr', colour space 'RGB ', PCS 'XYZ ', created
\* 2024-01-02 03:04:05, 'acsp', platform 'APPL', rendering intent 1.
HeaderProfile ==
  pack_I(128) \o <<108, 99, 109, 115>> \o <<4, 48, 0, 0>>
  \o <<109, 110, 116, 114>> \o <<82, 71, 66, 32>> \o <<88, 89, 90, 32>>
  \o pack_H(2024) \o pack_H(1) \o pack_H(2) \o pack_H(3) \o pack_H(4) \o pack_H(5)
  \o <<97, 99, 115, 112>> \o <<65, 80, 80, 76>>
  \o [i \in 1..20 |-> 0] \o pack_I(1) \o [i \in 1..60 |-> 0]

Catalogue ==
  << Chunk(T_IHDR, pack_I(4) \o pack_I(4) \o <<8, 2, 0, 0, 0>>),
     Chunk(T_IHDR, pack_I(1) \o pack_I(1) \o <<16, 6, 0, 0, 0>>),
     Chunk(T_IHDR, pack_I(4) \o pack_I(4) \o <<8, 2, 0, 0>>),
     Chunk(T_gAMA, pack_I(45455)),
     Chunk(T_gAMA, <<0, 1, 2>>),
     Chunk(T_cICP, <<9, 16, 0, 1>>),
     Chunk(T_cICP, <<9, 18, 0, 1>>),
     Chunk(T_cICP, <<1, 13, 0, 1>>),
     Chunk(T_iCCP, <<80, 0, 0>> \o zlib_compress(SmallProfile)),
     Chunk(T_iCCP, <<80, 81>>),
     Chunk(T_iCCP, <<80, 0, 0, 120, 218, 3>>),
     Chunk(T_mDCv, pack_H(35400) \o pack_H(14600) \o pack_H(8500) \o pack_H(39850)
                   \o pack_H(6550) \o pack_H(2300) \o pack_H(15635) \o pack_H(16450)
                   \o pack_I(10000000) \o pack_I(50)),
     Chunk(T_cLLi, <<0, 0, 3, 232>>),
     Chunk(T_iCCP, <<80, 0, 0>> \o zlib_compress(HeaderProfile)),
     Chunk(T_IEND, <<>>),
     Chunk(T_tEXt, <<65, 0, 66>>),
     Chunk(<<99, 200, 67, 80>>, <<1>>) >>

\* The catalogue chunks as they lie in a stream.
CatalogueBytes ==
  [i \in 1..Len(Catalogue) |-> make_chunk(Catalogue[i].t, Catalogue[i].d)]

\* Well-formed streams draw on the chunks with an ASCII type; damaged ones
\* on an IHDR, an IEND, a chunk no decoder knows and one whose type is not
\* ASCII.
WellFormedPositions == 1..(Len(Catalogue) - 1)
DamagedPositions == { 1, Len(Catalogue) - 2, Len(Catalogue) - 1, Len(Catalogue) }

\* Sequences of at most n catalogue positions among 'positions'.
RECURSIVE Bodies(_, _)
Bodies(n, positions) ==
  IF n = 0 THEN { <<>> }
  ELSE LET shorter == Bodies(n - 1, positions)
       IN  shorter \cup { Append(b, c) : b \in shorter, c \in positions }

RECURSIVE BodyBytes(_)
BodyBytes(body) ==
  IF body = <<>> THEN <<>>
  ELSE CatalogueBytes[Head(body)] \o BodyBytes(Tail(body))

\* The stream of a body: the signature, the chunks, an IEND when closed; then
\* tail < 0 removes -tail bytes from the end and tail > 0 appends tail bytes.
CraftedBytes(body, closed, tail) ==
  LET whole == png_signature \o BodyBytes(body)
               \o (IF closed THEN make_chunk(T_IEND, <<>>) ELSE <<>>)
  IN  IF tail < 0 THEN Slice(whole, 0, Len(whole) + tail)
      ELSE whole \o [i \in 1..tail |-> 0]

\* Where the catalogue holds its IEND.
IendPosition == Len(Catalogue) - 2

\* Byte sequences that do not start with the signature: every proper
\* prefix of it, and the signature with one byte changed.
NotPngPrefixes ==
  { Slice(png_signature, 0, n) : n \in 0..7 }
  \cup { [png_signature EXCEPT ![i] = (@ + 1) % 256] : i \in 1..8 }

(***************************************************************************)
(* State                                                                   *)
(***************************************************************************)
VARIABLES
  file,   \* the bytes of the PNG file under examination
  src,    \* how the file came to be: the writer's inputs, or a crafted stream
  rd,     \* what read_png_chunks(file) returned or raised; NotRun before
  an      \* what analyze_png_hdr(file) under main left behind; NotAnalyzed before

vars == << file, src, rd, an >>

NotRun == [status |-> "not run", chunks |-> <<>>]
NotAnalyzed == Analysis("not run", None, <<>>)

Init ==
  /\ file = <<>>
  /\ src = [kind |-> "none"]
  /\ rd = NotRun
  /\ an = NotAnalyzed

\* The profiles handed to the writer: none, an empty one and two others.
IccChoices == { None, Some(<<>>), Some(<<7>>), Some(<<97, 99, 115, 112, 0, 255>>) }

\* The writer's inputs: every small image with every profile choice, and
\* one wide image without and with a profile.
WriterInputs ==
  { << Image(h, w, s), icc >> :
      h \in 0..MaxHeight, w \in 0..MaxWidth, s \in 0..MaxSeed, icc \in IccChoices }
  \cup { << Image(1, WideWidth, MaxSeed), icc >> : icc \in { None, Some(<<7>>) } }

\* save_16bit_png_with_icc(img_array, output_path, icc_profile)
Save(img, icc_profile) ==
  /\ src.kind = "none"
  /\ file' = save_16bit_png_with_icc(img, icc_profile)
  /\ src' = [kind |-> "saved", img |-> img, icc |-> icc_profile]
  /\ UNCHANGED << rd, an >>

\* A file that starts with the signature is put in place.
Craft(body, closed, tail) ==
  /\ src.kind = "none"
  /\ file' = CraftedBytes(body, closed, tail)
  /\ src' = [kind |-> "crafted", body |-> body, closed |-> closed, tail |-> tail]
  /\ UNCHANGED << rd, an >>

\* A file that does not start with the signature is put in place.
CraftNotPng(prefix, closed) ==
  /\ src.kind = "none"
  /\ file' = prefix \o (IF closed THEN make_chunk(T_IEND, <<>>) ELSE <<>>)
  /\ src' = [kind |-> "not png", prefix |-> prefix]
  /\ UNCHANGED << rd, an >>

\* chunks = read_png_chunks(filepath)
Read ==
  /\ src.kind # "none"
  /\ rd = NotRun
  /\ rd' = read_png_chunks(file)
  /\ UNCHANGED << file, src, an >>

\* main: analyze_png_hdr(filepath) inside try / except Exception
Analyze ==
  /\ rd # NotRun
  /\ an = NotAnalyzed
  /\ an' = analyze_png_hdr(file)
  /\ UNCHANGED << file, src, rd >>

\* The number of bytes the records take in the stream: a length, a type, a
\* payload and a checksum each.
RECURSIVE StreamLen(_)
StreamLen(chunks) ==
  IF chunks = <<>> THEN 0 ELSE 12 + Len(Head(chunks).data) + StreamLen(Tail(chunks))

\* The file with the checksum field of its k-th chunk replaced by crc.
WithCrc(bytes, chunks, k, crc) ==
  LET at == 8 + StreamLen(SubSeq(chunks, 1, k - 1)) + 8 + Len(chunks[k].data)
  IN  SubSeq(bytes, 1, at) \o crc \o SubSeq(bytes, at + 5, Len(bytes))

\* The four checksum bytes of one chunk of an analyzed, well-formed file are
\* overwritten; what was read and analyzed before is remembered.
Tamper(k, crc) ==
  /\ src.kind \in { "saved", "crafted" }
  /\ src.kind = "crafted" => (src.closed /\ src.tail = 0)
  /\ rd.status = "ok"
  /\ an # NotAnalyzed
  /\ k \in 1..Len(rd.chunks)
  /\ crc # rd.chunks[k].crc
  /\ file' = WithCrc(file, rd.chunks, k, crc)
  /\ src' = [kind |-> "tampered", k |-> k, rd0 |-> rd, an0 |-> an]
  /\ rd' = NotRun
  /\ an' = NotAnalyzed

\* The inputs are drawn only where the action can start (src.kind = "none").
SaveAny ==
  /\ src.kind = "none"
  /\ \E inp \in WriterInputs : Save(inp[1], inp[2])

NextWriter == SaveAny \/ Read

SpecWriter == Init /\ [][NextWriter]_vars

\* The small images the reader's specification takes from the writer.
ReaderInputs ==
  { << Image(h, w, 1), icc >> : h \in 0..1, w \in 0..1, icc \in { None, Some(<<7>>) } }

WellFormedBodies == Bodies(MaxChunks, WellFormedPositions)
DamagedBodies == Bodies(MaxChunks, DamagedPositions)

SaveSmall ==
  /\ src.kind = "none"
  /\ \E inp \in ReaderInputs : Save(inp[1], inp[2])

\* A stream of whole chunks closed by an IEND.
CraftWellFormed ==
  /\ src.kind = "none"
  /\ \E body \in WellFormedBodies : Craft(body, TRUE, 0)

\* A stream without its IEND, cut short or padded.
CraftDamaged ==
  /\ src.kind = "none"
  /\ \E body \in DamagedBodies, closed \in BOOLEAN, tail \in (0 - MaxCut)..MaxPad :
       /\ ~closed \/ tail # 0
       /\ Craft(body, closed, tail)

CraftNotPngAny ==
  /\ src.kind = "none"
  /\ \E prefix \in NotPngPrefixes, closed \in BOOLEAN : CraftNotPng(prefix, closed)

TamperAny ==
  /\ rd.status = "ok"
  /\ \E k \in 1..Len(rd.chunks) : Tamper(k, <<0, 0, 0, 0>>)

NextReader ==
  \/ SaveSmall
  \/ CraftWellFormed
  \/ CraftDamaged
  \/ CraftNotPngAny
  \/ Read
  \/ Analyze
  \/ TamperAny

Spec == Init /\ [][NextReader]_vars

(***************************************************************************)
(* hdr_convert.py: extract_icc_profile                                     *)
(***************************************************************************)
\* What a call of extract_icc_profile leaves: the returned value (None, or
\* the dict with 'name' and 'data'), or the exception it raises.
ExtractReturned(profile) == [status |-> "ok", profile |-> profile]
ExtractRaised(exc) == [status |-> exc, profile |-> None]

\* while True: ... from position pos on.  A short read is not an error
\* here: no field but the length is unpacked.
RECURSIVE extract_loop(_, _)
extract_loop(f, pos) ==
  LET length_data == Slice(f, pos, pos + 4)
  IN  IF Len(length_data) < 4 THEN ExtractReturned(None)
      ELSE
        LET length == unpack_I(length_data)
            tbytes == Slice(f, pos + 4, pos + 8)
            dstart == pos + 4 + Len(tbytes)
            data   == Slice(f, dstart, dstart + length)
        IN  IF \E i \in 1..Len(tbytes) : tbytes[i] > 127
            THEN ExtractRaised("UnicodeDecodeError")
            ELSE IF tbytes = T_iCCP
            THEN LET null_pos == index_nul(data, 0)
                 IN  IF null_pos < 0 THEN ExtractRaised("ValueError")
                     ELSE LET icc_data == zlib_decompress(Slice(data, null_pos + 2, Len(data)))
                          IN  IF ~icc_data.ok THEN ExtractRaised("zlib.error")
                              ELSE ExtractReturned(Some([name |-> Slice(data, 0, null_pos),
                                                         data |-> icc_data.data]))
            ELSE IF tbytes = T_IEND THEN ExtractReturned(None)
            ELSE extract_loop(f, dstart + Len(data) + 4)

extract_icc_profile(f) ==
  IF Slice(f, 0, 8) # png_signature THEN ExtractReturned(None)
  ELSE extract_loop(f, 8)

(***************************************************************************)
(* hdr_convert.py: the pixel pipeline of convert_to_hdr                    *)
(*                                                                         *)
(* Light levels are exact rationals <<n, d>> in lowest terms, d > 0.  The   *)
(* inputs are chosen so that every level of the pipeline is one: samples    *)
(* 0 and 255, integer gains and nits, images one pixel wide (so that every *)
(* distance to the centre is an integer) and masks of one grey level.      *)
(***************************************************************************)
MaxColumn == 3       \* converted images are 1 wide and 1..MaxColumn high

Abs(x) == IF x < 0 THEN 0 - x ELSE x

RECURSIVE Gcd(_, _)
Gcd(a, b) == IF b = 0 THEN a ELSE Gcd(b, a % b)

Ratio(n, d) == LET g == Gcd(Abs(n), d) IN << n \div g, d \div g >>
Times(p, q) == Ratio(p[1] * q[1], p[2] * q[2])

\* np.clip(x, 0, 1)
clip(p) == IF p[1] <= 0 THEN <<0, 1>> ELSE IF p[1] >= p[2] THEN <<1, 1>> ELSE p

\* 1.0 + mask * (gain - 1.0)
Boost(mask, gain) == Ratio(mask[2] + mask[1] * (gain - 1), mask[2])

\* srgb_to_linear(sample / 255.0) at the two ends of the curve: 0 / 12.92
\* and ((1 + 0.055) / 1.055) ** 2.4.
srgb_to_linear(sample) ==
  CASE sample = 0 -> <<0, 1>>
    [] sample = 255 -> <<1, 1>>

\* linear_to_pq(x) * 65535 in thousandths, cut off, as the source's double
\* precision arithmetic gives it, at the light levels <<n, d>> the
\* configurations below reach: entries <<n, d, value>>.
pq_table ==
  { <<0, 1, 47>>, <<1, 200, 28853852>>, <<47, 5000, 32890804>>,
    <<6, 625, 33028793>>, <<49, 5000, 33164131>>, <<1, 100, 33296919>>,
    <<203, 20000, 33394895>>, <<51, 5000, 33427254>>, <<13, 1250, 33555226>>,
    <<53, 5000, 33680921>>, <<27, 2500, 33804421>>, <<7, 625, 34045135>>,
    <<3, 200, 35998508>>, <<47, 2500, 37530591>>, <<9541, 500000, 37632235>>,
    <<12, 625, 37674344>>, <<609, 31250, 37776093>>, <<49, 2500, 37815276>>,
    <<9947, 500000, 37917127>>, <<1, 50, 37953497>>,
    <<203, 10000, 38055445>>, <<51, 2500, 38089109>>,
    <<10353, 500000, 38191153>>, <<13, 625, 38222211>>,
    <<2639, 125000, 38324348>>, <<53, 2500, 38352895>>,
    <<10759, 500000, 38455121>>, <<27, 1250, 38481248>>,
    <<5481, 250000, 38583562>>, <<14, 625, 38731284>>,
    <<1421, 62500, 38833765>>, <<3, 100, 40753781>>,
    <<609, 20000, 40857476>>, <<9541, 250000, 42436696>>,
    <<609, 15625, 42584521>>, <<9947, 250000, 42729388>>,
    <<1, 25, 42766738>>, <<203, 5000, 42871413>>,
    <<10353, 250000, 43010705>>, <<2639, 62500, 43147367>>,
    <<10759, 250000, 43281498>>, <<5481, 125000, 43413190>>,
    <<1421, 31250, 43669598>>, <<1, 20, 44339985>>, <<3, 50, 45631632>>,
    <<609, 10000, 45737321>>, <<203, 2500, 47784514>>, <<47, 500, 48829052>>,
    <<12, 125, 48979400>>, <<49, 500, 49126671>>, <<1, 10, 49270988>>,
    <<51, 500, 49412466>>, <<13, 125, 49551214>>, <<53, 500, 49687333>>,
    <<27, 250, 49820923>>, <<14, 125, 50080869>>, <<609, 5000, 50680565>>,
    <<3, 20, 52169720>>, <<47, 250, 53783470>>, <<24, 125, 53933820>>,
    <<49, 250, 54081047>>, <<1, 5, 54225274>>, <<51, 250, 54366620>>,
    <<26, 125, 54505196>>, <<53, 250, 54641108>>, <<27, 125, 54774456>>,
    <<28, 125, 55033821>>, <<3, 10, 57112864>>, <<2, 5, 59150081>>,
    <<1, 2, 60721238>>, <<10001, 20000, 60721940>>, <<3, 5, 61997981>>,
    <<47, 50, 65110059>>, <<470047, 500000, 65110747>>, <<24, 25, 65254763>>,
    <<30003, 31250, 65255450>>, <<49, 50, 65396368>>,
    <<490049, 500000, 65397054>>, <<1, 1, 65535000>> }

linear_to_pq(x) == (CHOOSE e \in pq_table : e[1] = x[1] /\ e[2] = x[2])[3]

\* (pq * 65535).astype(np.uint16): the fraction is dropped.
astype_uint16(pq65535) == (pq65535 \div 1000) % 65536

\* np.sqrt of a sum of squares that is a square.
sqrt(d2) == CHOOSE n \in 0..d2 : n * n = d2

\* The distance of the pixel in row y, column x from the centre.
dist(width, height, y, x) ==
  LET center == << width \div 2, height \div 2 >>
  IN  sqrt((x - 1 - center[1]) * (x - 1 - center[1])
           + (y - 1 - center[2]) * (y - 1 - center[2]))

\* The ramp with its sign the wrong way round.
create_radial_mask_inverted(width, height, radius, falloff) ==
  [y \in 1..height |-> [x \in 1..width |->
     IF falloff > 0 THEN clip(Ratio(radius - dist(width, height, y, x), falloff))
     ELSE IF dist(width, height, y, x) > radius THEN <<1, 1>> ELSE <<0, 1>>]]

\* The hard edge with the circle itself counted as outside.
create_radial_mask_inclusive(width, height, radius, falloff) ==
  [y \in 1..height |-> [x \in 1..width |->
     IF falloff > 0 THEN clip(Ratio(dist(width, height, y, x) - radius, falloff))
     ELSE IF dist(width, height, y, x) >= radius THEN <<1, 1>> ELSE <<0, 1>>]]

\* create_radial_mask(width, height, radius, falloff=falloff): 0 inside the
\* circle around the centre, 1 outside.
create_radial_mask(width, height, radius, falloff) ==
  [y \in 1..height |-> [x \in 1..width |->
     IF falloff > 0 THEN clip(Ratio(dist(width, height, y, x) - radius, falloff))
     ELSE IF dist(width, height, y, x) > radius THEN <<1, 1>> ELSE <<0, 1>>]]

\* load_mask_image(mask_path, width, height) for a mask image of one grey
\* level: resized to the image when its size differs, then level / 255.
load_mask_image(mask, target_width, target_height) ==
  [y \in 1..target_height |-> [x \in 1..target_width |-> Ratio(mask.level, 255)]]

\* The value of 'linear' at row y, column x, channel c when it is handed to
\* linear_to_pq: srgb_to_linear of the sample, times gain, times the radial
\* and the mask boost when asked for, times nits / 10000, clipped.
linear(img, cfg, y, x, c) ==
  LET l0 == Times(srgb_to_linear(img.px[y][x][c]), << cfg.gain, 1 >>)
      l1 == IF cfg.radial_boost # None
            THEN Times(l0, Boost(create_radial_mask(img.width, img.height,
                                                    cfg.radial_boost[1], cfg.falloff)[y][x],
                                 cfg.radial_gain))
            ELSE l0
      l2 == IF cfg.mask_path # None
            THEN Times(l1, Boost(load_mask_image(cfg.mask_path[1], img.width, img.height)[y][x],
                                 cfg.mask_gain))
            ELSE l1
  IN  clip(Times(l2, Ratio(cfg.nits, 10000)))

\* What a call of convert_to_hdr leaves: the exception it ends with or
\* "ok", the dict extract_icc_profile returned, and the bytes written to
\* output_path (None when the file was never opened).
convert_to_hdr(img, cfg) ==
  LET width  == img.width
      height == img.height
      img_16bit ==
        [height |-> height, width |-> width,
         px |-> [y \in 1..height |-> [x \in 1..width |-> [c \in 1..3 |->
                   astype_uint16(linear_to_pq(linear(img, cfg, y, x, c)))]]]]
      icc_data == IF cfg.reference_hdr # None /\ cfg.reference_hdr[1].exists
                  THEN extract_icc_profile(cfg.reference_hdr[1].bytes)
                  ELSE ExtractReturned(None)
      icc_profile == IF icc_data.profile # None
                     THEN Some(icc_data.profile[1].data) ELSE None
  IN  IF icc_data.status # "ok"
      THEN [status |-> icc_data.status, icc_data |-> None, output |-> None]
      ELSE [status |-> "ok", icc_data |-> icc_data.profile,
            output |-> Some(save_16bit_png_with_icc(img_16bit, icc_profile))]

(***************************************************************************)
(* The inputs of the conversion                                            *)
(***************************************************************************)
\* 8-bit grey images one pixel wide, every pixel black or white.
ColumnImages ==
  { [height |-> h, width |-> 1,
     px |-> [y \in 1..h |-> [x \in 1..1 |-> [c \in 1..3 |-> col[y]]]]] :
      h \in 1..MaxColumn, col \in [1..MaxColumn -> {0, 255}] }

\* Reference files: one that is not there, and streams with and without a
\* profile, whole and damaged.
Missing == [exists |-> FALSE, bytes |-> <<>>]
Present(bytes) == [exists |-> TRUE, bytes |-> bytes]

\* <<body, closed, tail>> of the streams used as reference files, the
\* bodies as positions of the catalogue (1 IHDR, 9 iCCP, 10 iCCP without a
\* NUL, 11 iCCP that does not inflate): without an iCCP chunk and with one,
\* whole and cut short, with the iCCP chunk behind the IEND, and with an
\* iCCP chunk or a chunk type that is damaged.
ReferenceStreams ==
  { << <<>>, TRUE, 0 >>,
    << <<1>>, FALSE, 0 >>,
    << <<1>>, FALSE, 0 - 6 >>,
    << <<1, 9>>, TRUE, 0 >>,
    << <<9, 11>>, TRUE, 0 >>,
    << <<9>>, FALSE, 0 - 2 >>,
    << <<IendPosition, 9>>, TRUE, 0 >>,
    << <<1, 10>>, TRUE, 0 >>,
    << <<11>>, TRUE, 0 >>,
    << <<Len(Catalogue)>>, TRUE, 0 >> }

\* The profiles of the reference files written by save_16bit_png_with_icc
\* or holding a hand-made iCCP chunk.
ReferenceProfiles == { <<>>, SmallProfile }

References ==
  { Missing }
  \cup { Present(p \o make_chunk(T_IEND, <<>>)) :
           p \in { <<>>, [png_signature EXCEPT ![1] = 0] } }
  \cup { Present(CraftedBytes(r[1], r[2], r[3])) : r \in ReferenceStreams }
  \cup { Present(png_signature
                 \o make_chunk(T_iCCP, <<80, 0, 0>> \o zlib_compress(p))
                 \o make_chunk(T_IEND, <<>>)) : p \in ReferenceProfiles }
  \cup { Present(save_16bit_png_with_icc(Image(1, 1, 1), icc)) :
           icc \in { None } \cup { Some(p) : p \in ReferenceProfiles } }

\* The defaults of convert_to_hdr, with the nits given.
DefaultConfig(nits) ==
  [gain |-> 1, nits |-> nits, radial_boost |-> None, radial_gain |-> 2,
   falloff |-> 50, mask_path |-> None, mask_gain |-> 100, reference_hdr |-> None]

\* <<radius, falloff, radial_gain>> of the radial boosts tried: the default
\* gain with every radius and falloff, other gains with the hard edge and
\* two ramps.
RadialChoices ==
  { << rf[1], rf[2], 2 >> :
      rf \in { <<0, 50>>, <<1, 50>>, <<0, 0>>, <<1, 0>>, <<0, 1>>, <<0, 2>>,
               <<0 - 1, 1>>, <<0 - 1, 2>>, <<1, 0 - 1>>, <<0, 0 - 1>> } }
  \cup { << rf[1], rf[2], g >> :
           rf \in { <<0, 0>>, <<1, 0>>, <<0, 1>>, <<0, 2>> }, g \in { 0, 1, 3 } }

\* Mask images of one grey level, 1 wide and 1 or 2 high.
MaskChoices == { [width |-> 1, height |-> h, level |-> l] : h \in 1..2, l \in {0, 255} }

\* The defaults at two nits, and the defaults with one argument changed.
ConfigsFrom(base) ==
  { base }
  \cup { [base EXCEPT !.gain = g] : g \in { 0 - 1, 0, 2 } }
  \cup { [base EXCEPT !.nits = n] : n \in { 0 - 100, 0, 203, 10001 } }
  \cup { [base EXCEPT !.radial_boost = Some(rf[1]), !.falloff = rf[2],
                       !.radial_gain = rf[3]] : rf \in RadialChoices }
  \cup { [base EXCEPT !.mask_path = Some(m)] : m \in MaskChoices }
  \cup { [base EXCEPT !.reference_hdr = Some(r)] : r \in References }

Configs == ConfigsFrom(DefaultConfig(10000)) \cup ConfigsFrom(DefaultConfig(1000))

\* convert_to_hdr(input_path, output_path, ...)
Convert(img, cfg) ==
  /\ src.kind = "none"
  /\ LET r == convert_to_hdr(img, cfg)
     IN  /\ file' = (IF r.output = None THEN <<>> ELSE r.output[1])
         /\ src' = [kind |-> "converted", img |-> img, cfg |-> cfg,
                    status |-> r.status, icc_data |-> r.icc_data,
                    written |-> r.output # None]
  /\ UNCHANGED << rd, an >>

ConvertAny ==
  /\ src.kind = "none"
  /\ \E img \in ColumnImages, cfg \in Configs : Convert(img, cfg)

\* The output file, once written, is read back.
ReadOutput ==
  /\ src.kind = "converted"
  /\ src.written
  /\ Read

NextConvert == ConvertAny \/ ReadOutput \/ Analyze

SpecConvert == Init /\ [][NextConvert]_vars

(***************************************************************************)
(* Claims about the writer, checked under SpecWriter                       *)
(***************************************************************************)
WasSaved == src.kind = "saved"
WasRead == rd.status # "not run"

\* The payloads of the records of type t, concatenated in order.
RECURSIVE PayloadsOf(_, _)
PayloadsOf(chunks, t) ==
  IF chunks = <<>> THEN <<>>
  ELSE (IF Head(chunks).type = t THEN Head(chunks).data ELSE <<>>)
       \o PayloadsOf(Tail(chunks), t)

TypesOf(chunks) == [k \in 1..Len(chunks) |-> chunks[k].type]

\* A PNG decoder's view of an 8-bit-filter-0, 16-bit RGB scanline stream:
\* every scanline starts with filter byte 0, and the big-endian sample of
\* row y, column x, channel c is the one given.
ScanlinesHold(raw, img) ==
  LET stride == 1 + 6 * img.width
  IN  /\ Len(raw) = img.height * stride
      /\ \A y \in 1..img.height :
           /\ raw[(y - 1) * stride + 1] = 0
           /\ \A x \in 1..img.width, c \in 1..3 :
                LET at == (y - 1) * stride + 1 + 6 * (x - 1) + 2 * (c - 1)
                IN  raw[at + 1] * 256 + raw[at + 2] = img.px[y][x][c]

\* C1: reading back a written stream gives an IHDR that decodes to the
\* writer's width, height, bit depth 16, colour type 2 and methods 0/0/0,
\* and IDAT payloads that, concatenated and inflated, are the scanlines of
\* the input samples (filter byte 0, big-endian R, G, B, row-major).
C1_RoundTrip ==
  (WasSaved /\ WasRead) =>
    /\ rd.status = "ok"
    /\ Len(rd.chunks) >= 1
    /\ rd.chunks[1].type = T_IHDR
    /\ LET ihdr == parse_ihdr(rd.chunks[1].data)
       IN  /\ ihdr.ok
           /\ ihdr.width = src.img.width
           /\ ihdr.height = src.img.height
           /\ ihdr.bit_depth = 16
           /\ ihdr.color_type = 2
           /\ ihdr.compression = 0
           /\ ihdr.filter_method = 0
           /\ ihdr.interlace = 0
    /\ LET raw == zlib_decompress(PayloadsOf(rd.chunks, T_IDAT))
       IN  raw.ok /\ ScanlinesHold(raw.data, src.img)

\* C1 witness: a written image with several pixels, whose samples differ in
\* their high and low bytes, has been read back.
C1_Witness ==
  /\ WasSaved /\ WasRead
  /\ src.img.height >= 2 /\ src.img.width >= 2
  /\ \E y \in 1..src.img.height, x \in 1..src.img.width :
       src.img.px[y][x][1] \div 256 # src.img.px[y][x][1] % 256

\* The records between the optional iCCP and the IEND are IDAT records.
IdatRun(chunks, first) ==
  /\ Len(chunks) - 1 >= first
  /\ \A k \in first..(Len(chunks) - 1) :
       /\ chunks[k].type = T_IDAT
       /\ Len(chunks[k].data) <= chunk_size
       /\ k < Len(chunks) - 1 => Len(chunks[k].data) = chunk_size

\* The layout of a written stream, with an iCCP chunk exactly when hasIccp.
LayoutHolds(hasIccp) ==
  /\ rd.status = "ok"
  /\ Slice(file, 0, 8) = png_signature
  /\ 8 + StreamLen(rd.chunks) = Len(file)
  /\ Len(rd.chunks) >= 3
  /\ rd.chunks[1].type = T_IHDR
  /\ rd.chunks[Len(rd.chunks)].type = T_IEND
  /\ rd.chunks[Len(rd.chunks)].data = <<>>
  /\ IF hasIccp
     THEN rd.chunks[2].type = T_iCCP /\ IdatRun(rd.chunks, 3)
     ELSE IdatRun(rd.chunks, 2)

\* C2 as stated: the written stream is the signature, one IHDR, an iCCP
\* exactly when a colour profile is supplied, one or more IDAT of at most
\* 8192 bytes (all but the last exactly 8192), and one empty IEND.
C2_LayoutAsStated ==
  (WasSaved /\ WasRead) => LayoutHolds(src.icc # None)

\* C2 amended: as stated, with an iCCP chunk exactly when a non-empty
\* colour profile is supplied; an empty profile is written like no profile.
C2_Layout ==
  (WasSaved /\ WasRead) =>
    LayoutHolds(src.icc # None /\ Len(src.icc[1]) > 0)

\* C2 witness: a written stream with a profile and more than one IDAT.
C2_Witness ==
  /\ WasSaved /\ WasRead
  /\ src.icc # None
  /\ Len(rd.chunks) >= 5

\* C3: every record read back from a written stream has a length field
\* equal to its payload size and a checksum equal to the CRC-32 of its type
\* bytes followed by its payload.
C3_ChunkRecord ==
  (WasSaved /\ WasRead) =>
    /\ rd.status = "ok"
    /\ \A k \in 1..Len(rd.chunks) :
         /\ rd.chunks[k].length = Len(rd.chunks[k].data)
         /\ rd.chunks[k].crc = crc32_bytes(rd.chunks[k].type \o rd.chunks[k].data)

\* C3 witness: a stream with IHDR, iCCP, IDAT and IEND has been read back.
C3_Witness ==
  /\ WasSaved /\ WasRead
  /\ rd.status = "ok"
  /\ { T_IHDR, T_iCCP, T_IDAT, T_IEND } \subseteq { rd.chunks[k].type : k \in 1..Len(rd.chunks) }

(***************************************************************************)
(* Claims about the reader and the analyzer, checked under Spec            *)
(***************************************************************************)
WasAnalyzed == an.status # "not run"

\* C4: a file whose first 8 bytes are not the signature (a shorter file
\* included) makes read_png_chunks raise its format error and yields no
\* record; a file that starts with the signature never raises that error.
C4_Signature ==
  WasRead =>
    IF Slice(file, 0, 8) # png_signature
    THEN rd.status = NotPng /\ rd.chunks = <<>>
    ELSE rd.status # NotPng

\* C4 witness: a file of more than 8 bytes whose signature has one wrong
\* byte has been read.
C4_Witness ==
  /\ WasRead
  /\ Len(file) > 8
  /\ Slice(file, 0, 4) = Slice(png_signature, 0, 4)
  /\ Slice(file, 0, 8) # png_signature

\* The whole chunks of a crafted stream, as catalogue positions: the body,
\* the closing IEND, less the last chunk when the tail cuts into it.
CraftedChunks ==
  LET all == src.body \o (IF src.closed THEN << IendPosition >> ELSE <<>>)
  IN  IF src.tail < 0 /\ all # <<>> THEN SubSeq(all, 1, Len(all) - 1) ELSE all

\* The bytes of a crafted stream after its whole chunks.
CraftedStray == Len(file) - 8 - Len(BodyBytes(CraftedChunks))

\* The number of whole chunks up to and including the first IEND; 0 when
\* there is no IEND among them.
FirstIend(positions) ==
  IF \E k \in 1..Len(positions) : Catalogue[positions[k]].t = T_IEND
  THEN CHOOSE k \in 1..Len(positions) :
         /\ Catalogue[positions[k]].t = T_IEND
         /\ \A j \in 1..(k - 1) : Catalogue[positions[j]].t # T_IEND
  ELSE 0

\* The records the stopping rule lets through: up to the first IEND, or
\* all whole chunks.
ExpectedCount ==
  IF FirstIend(CraftedChunks) > 0 THEN FirstIend(CraftedChunks) ELSE Len(CraftedChunks)

\* Every record is the chunk found at its place in the stream.
InStreamOrder ==
  \A k \in 1..Len(rd.chunks) :
    LET at == 8 + StreamLen(SubSeq(rd.chunks, 1, k - 1))
        c  == rd.chunks[k]
    IN  /\ Slice(file, at, at + 4) = pack_I(c.length)
        /\ Slice(file, at + 4, at + 8) = c.type
        /\ Slice(file, at + 8, at + 8 + c.length) = c.data
        /\ Slice(file, at + 8 + c.length, at + 12 + c.length) = c.crc

\* C5: when read_png_chunks returns, its records are the chunks of the
\* stream in order, an IEND record is the last one, and it stopped either
\* after an IEND or where fewer than 4 bytes were left for a length field;
\* and a stream of whole chunks that reaches an IEND, or ends with fewer
\* than 4 stray bytes, is returned without an error, with exactly the
\* records up to the IEND (or all of them).
C5_StopRule ==
  /\ (WasRead /\ rd.status = "ok") =>
       /\ InStreamOrder
       /\ \A k \in 1..(Len(rd.chunks) - 1) : rd.chunks[k].type # T_IEND
       /\ \/ Len(rd.chunks) >= 1 /\ rd.chunks[Len(rd.chunks)].type = T_IEND
          \/ Len(file) - (8 + StreamLen(rd.chunks)) < 4
  /\ ( /\ WasRead
       /\ src.kind = "crafted"
       /\ Slice(file, 0, 8) = png_signature
       /\ \A k \in 1..ExpectedCount : \A i \in 1..4 : Catalogue[CraftedChunks[k]].t[i] <= 127
       /\ FirstIend(CraftedChunks) > 0 \/ CraftedStray < 4 )
     => /\ rd.status = "ok"
        /\ Len(rd.chunks) = ExpectedCount
        /\ \A k \in 1..ExpectedCount :
             /\ rd.chunks[k].type = Catalogue[CraftedChunks[k]].t
             /\ rd.chunks[k].data = Catalogue[CraftedChunks[k]].d

\* C5 witness (a): a stream with chunks after its first IEND has been read.
\* The witness of (b) is C5_WitnessShort.
C5_Witness ==
  /\ WasRead /\ rd.status = "ok"
  /\ src.kind = "crafted"
  /\ FirstIend(CraftedChunks) > 0
  /\ FirstIend(CraftedChunks) < Len(CraftedChunks)

\* A stream without IEND that ends 1 to 3 bytes into a length field has
\* been read, and records came out of it.
C5_WitnessShort ==
  /\ WasRead /\ rd.status = "ok"
  /\ src.kind = "crafted"
  /\ FirstIend(CraftedChunks) = 0
  /\ CraftedStray \in 1..3
  /\ Len(rd.chunks) >= 1

\* C6: after the 4 checksum bytes of one chunk of a well-formed stream are
\* changed, read_png_chunks returns the same records but for that record's
\* checksum field, which is the changed one, and the analysis is the same.
C6_ChecksumCarried ==
  /\ (src.kind = "tampered" /\ WasRead) =>
       /\ rd.status = "ok"
       /\ Len(rd.chunks) = Len(src.rd0.chunks)
       /\ \A j \in 1..Len(rd.chunks) :
            /\ rd.chunks[j].type = src.rd0.chunks[j].type
            /\ rd.chunks[j].length = src.rd0.chunks[j].length
            /\ rd.chunks[j].data = src.rd0.chunks[j].data
            /\ j # src.k => rd.chunks[j].crc = src.rd0.chunks[j].crc
       /\ rd.chunks[src.k].crc = <<0, 0, 0, 0>>
       /\ rd.chunks[src.k].crc # src.rd0.chunks[src.k].crc
  /\ (src.kind = "tampered" /\ WasAnalyzed) => an = src.an0

\* C6 witness: a stream whose cICP chunk had its checksum changed has been
\* read and analyzed again, and the analysis found the HDR type.
C6_Witness ==
  /\ src.kind = "tampered"
  /\ WasRead /\ WasAnalyzed
  /\ rd.chunks[src.k].type = T_cICP
  /\ an.status = "ok"
  /\ an.hdr_info[1].hdr_type # None

(***************************************************************************)
(* Claims about the conversion, checked under SpecConvert                  *)
(***************************************************************************)
WasConverted == src.kind = "converted"

\* C7 as stated: whatever the reference file is, extract_icc_profile inside
\* convert_to_hdr ends without an error, the conversion writes its output,
\* and the output has no iCCP chunk when no profile was found.
C7_BestEffort ==
  (WasConverted /\ src.cfg.reference_hdr # None) =>
    /\ src.status = "ok"
    /\ src.written
    /\ (src.icc_data = None /\ WasRead) =>
         \A k \in 1..Len(rd.chunks) : rd.chunks[k].type # T_iCCP

\* The arguments the stated validation rejects.
BadConfig(cfg, img) ==
  \/ cfg.gain <= 0
  \/ cfg.nits <= 0
  \/ cfg.nits > 10000
  \/ cfg.radial_boost # None /\ cfg.radial_boost[1] < 0
  \/ cfg.falloff < 0
  \/ /\ cfg.mask_path # None
     /\ << cfg.mask_path[1].width, cfg.mask_path[1].height >> # << img.width, img.height >>

\* C8 as stated: a conversion called with a gain <= 0, nits <= 0 or > 10000,
\* a negative radius or falloff, or a mask of another size than the image
\* fails with a configuration error and writes no output.
C8_Validation ==
  (WasConverted /\ BadConfig(src.cfg, src.img)) =>
    /\ src.status = "ConfigurationError"
    /\ ~src.written

\* Whether the decoder of a chunk accepts it: the chunk's type has a
\* decoder and its payload decodes.
Decodable(chunk) ==
  LET r == analyze_chunk(hdr_info_init, chunk)
  IN  r.ok /\ r.decoded

\* C9 as stated: when a chunk of a stream cannot be decoded the analyzer
\* reports it and goes on, so every decodable chunk of the stream is
\* decoded and a summary is produced.
C9_PerChunkRecovery ==
  (WasAnalyzed /\ rd.status = "ok") =>
    \A k \in 1..Len(rd.chunks) :
      Decodable(rd.chunks[k]) =>
        /\ \E i \in 1..Len(an.sections) : an.sections[i] = k
        /\ an.hdr_info # None

\* C10 as stated: at the end of analyze_png_hdr the HDR type is
\* 'HDR10 (PQ)' exactly when the cICP record kept in the summary has
\* transfer characteristics 16, 'HLG' exactly when 18, and none otherwise.
C10_HdrType ==
  (WasAnalyzed /\ an.status = "ok") =>
    LET h  == an.hdr_info[1]
        tc == IF h.cicp = None THEN 0 - 1 ELSE h.cicp[1].transfer_characteristics
    IN  h.hdr_type = (IF tc = 16 THEN Some("HDR10 (PQ)")
                      ELSE IF tc = 18 THEN Some("HLG")
                      ELSE None)

\* The chunk types that indicate HDR content.
HdrIndicating == { T_cICP, T_mDCv, T_cLLi }

\* C11 as stated: for a stream without a cICP, mDCv or cLLi chunk, whatever
\* its IHDR says, analyze_png_hdr ends with has_hdr false and no hdr_type.
C11_NoHdrWithoutHdrChunks ==
  ( /\ WasAnalyzed /\ an.status = "ok"
    /\ \A k \in 1..Len(rd.chunks) : rd.chunks[k].type \notin HdrIndicating )
  => /\ ~an.hdr_info[1].has_hdr
     /\ an.hdr_info[1].hdr_type = None

\* The image a PNG decoder finds in the file that was read: the inflated
\* IDAT payloads are the scanlines of img.
OutputIs(img) ==
  LET raw == zlib_decompress(PayloadsOf(rd.chunks, T_IDAT))
  IN  raw.ok /\ ScanlinesHold(raw.data, img)

\* round(pq * 65535) of a value given in thousandths.
RoundNearest(pq65535) == (pq65535 + 500) \div 1000

\* C12 as stated: every sample of the written image is round(pq * 65535),
\* the nearest integer (and so within 0..65535), of the PQ value of its
\* pixel and channel.
C12_RoundsToNearest ==
  (WasConverted /\ src.written /\ WasRead) =>
    OutputIs([height |-> src.img.height, width |-> src.img.width,
              px |-> [y \in 1..src.img.height |-> [x \in 1..src.img.width |->
                        [c \in 1..3 |->
                           RoundNearest(linear_to_pq(linear(src.img, src.cfg, y, x, c)))]]]])

\* The radial field and multiplier of the conversion that was run, at row
\* y, column x.
Field(y, x) ==
  create_radial_mask(src.img.width, src.img.height,
                     src.cfg.radial_boost[1], src.cfg.falloff)[y][x]
Multiplier(y, x) == Boost(Field(y, x), src.cfg.radial_gain)
Distance(y, x) == dist(src.img.width, src.img.height, y, x)
Pixels == { << y, x >> : y \in 1..src.img.height, x \in 1..src.img.width }

\* A conversion with a radial boost of radius >= 0 and falloff >= 0 was run.
RadialRun ==
  /\ WasConverted
  /\ src.cfg.radial_boost # None
  /\ src.cfg.radial_boost[1] >= 0
  /\ src.cfg.falloff >= 0

\* C13 as stated: the multiplier is 1 at distance 0 and outerGain at every
\* distance >= radius + falloff, and the field stays within [0, 1].
C13_RadialBoundsAsStated ==
  RadialRun =>
    \A p \in Pixels :
      /\ Distance(p[1], p[2]) = 0 => Multiplier(p[1], p[2]) = <<1, 1>>
      /\ Distance(p[1], p[2]) >= src.cfg.radial_boost[1] + src.cfg.falloff
           => Multiplier(p[1], p[2]) = Ratio(src.cfg.radial_gain, 1)
      /\ Field(p[1], p[2])[1] >= 0 /\ Field(p[1], p[2])[1] <= Field(p[1], p[2])[2]

\* C13: for radius >= 0 and falloff >= 0 the multiplier is 1 at distance 0,
\* and it is outerGain at every distance >= radius + falloff when
\* falloff > 0 and at every distance > radius when falloff = 0; the field
\* stays within [0, 1].
C13_RadialBounds ==
  RadialRun =>
    \A p \in Pixels :
      /\ Distance(p[1], p[2]) = 0 => Multiplier(p[1], p[2]) = <<1, 1>>
      /\ ( /\ Distance(p[1], p[2]) >= src.cfg.radial_boost[1] + src.cfg.falloff
           /\ src.cfg.falloff = 0 => Distance(p[1], p[2]) > src.cfg.radial_boost[1] )
           => Multiplier(p[1], p[2]) = Ratio(src.cfg.radial_gain, 1)
      /\ Field(p[1], p[2])[1] >= 0 /\ Field(p[1], p[2])[1] <= Field(p[1], p[2])[2]

\* C13 witness: a ramp (falloff > 0) was used on an image with a pixel at
\* the centre, one inside the ramp and one at or beyond its end, with an
\* outer gain other than 1.
C13_Witness ==
  /\ RadialRun
  /\ src.cfg.falloff > 0
  /\ src.cfg.radial_gain # 1
  /\ \E p \in Pixels : Distance(p[1], p[2]) = 0
  /\ \E p \in Pixels :
       /\ Distance(p[1], p[2]) >= src.cfg.radial_boost[1] + src.cfg.falloff
       /\ Multiplier(p[1], p[2]) = Ratio(src.cfg.radial_gain, 1)

\* A ramp was used and a pixel lies strictly inside it.
C13_WitnessInside ==
  /\ RadialRun
  /\ src.cfg.falloff > 0
  /\ \E p \in Pixels :
       /\ Field(p[1], p[2])[1] > 0
       /\ Field(p[1], p[2])[1] < Field(p[1], p[2])[2]

\* C14: with falloff = 0 the field is the step function distance > radius:
\* a pixel at distance exactly the radius has field 0 and multiplier 1, and
\* exactly the pixels strictly farther have field 1 and multiplier outerGain.
C14_HardEdge ==
  (WasConverted /\ src.cfg.radial_boost # None /\ src.cfg.falloff = 0) =>
    \A p \in Pixels :
      IF Distance(p[1], p[2]) > src.cfg.radial_boost[1]
      THEN /\ Field(p[1], p[2]) = <<1, 1>>
           /\ Multiplier(p[1], p[2]) = Ratio(src.cfg.radial_gain, 1)
      ELSE /\ Field(p[1], p[2]) = <<0, 1>>
           /\ Multiplier(p[1], p[2]) = <<1, 1>>

\* C14 witness: a hard edge with an outer gain other than 1 was used on an
\* image with a pixel exactly on the circle and a pixel outside it.
C14_Witness ==
  /\ WasConverted
  /\ src.cfg.radial_boost # None
  /\ src.cfg.falloff = 0
  /\ src.cfg.radial_gain # 1
  /\ \E p \in Pixels : Distance(p[1], p[2]) = src.cfg.radial_boost[1]
  /\ \E p \in Pixels : Distance(p[1], p[2]) > src.cfg.radial_boost[1]

\* The name and the compression method of an iCCP payload are there to be
\* read: a NUL ends the name and a byte follows it.
IccpFramed(data) == index_nul(data, 0) >= 0 /\ index_nul(data, 0) + 1 < Len(data)

\* The compressed profile of a framed iCCP payload does not inflate.
IccpBroken(data) ==
  ~zlib_decompress(Slice(data, index_nul(data, 0) + 2, Len(data))).ok

\* Chunks from..to of the stream all leave analyze_png_hdr in its loop.
Accepted(from, to) ==
  \A j \in from..to : analyze_chunk(hdr_info_init, rd.chunks[j]).ok

\* C15: a failure inside the diagnostic part of parse_iccp is a value.  For
\* every iCCP chunk of an analyzed stream whose name and method can be read,
\* parse_iccp returns a record; when the profile does not inflate the record
\* has the profile name, the compression method and an error and no
\* icc_info, and otherwise it has the icc_info and no error.  And when the
\* analysis reached such a failing chunk, it printed its section and went
\* on: every decodable chunk after it, up to the next chunk that raises, had
\* its section printed too, and with no such chunk the summary is returned.
C15_IccpErrorsAreValues ==
  (WasAnalyzed /\ rd.status = "ok") =>
    \A k \in 1..Len(rd.chunks) :
      (rd.chunks[k].type = T_iCCP /\ IccpFramed(rd.chunks[k].data)) =>
        LET data == rd.chunks[k].data
            iccp == parse_iccp(data)
        IN  /\ iccp.ok
            /\ iccp.profile_name = Slice(data, 0, index_nul(data, 0))
            /\ iccp.compression_method = data[index_nul(data, 0) + 2]
            /\ IF IccpBroken(data)
               THEN iccp.error # None /\ iccp.icc_info = None
               ELSE iccp.error = None /\ iccp.icc_info # None
            /\ (IccpBroken(data) /\ Accepted(1, k - 1)) =>
                 /\ \E i \in 1..Len(an.sections) : an.sections[i] = k
                 /\ \A j \in (k + 1)..Len(rd.chunks) :
                      (Accepted(k + 1, j) /\ Decodable(rd.chunks[j])) =>
                        \E i \in 1..Len(an.sections) : an.sections[i] = j
                 /\ Accepted(k + 1, Len(rd.chunks)) =>
                      an.status = "ok" /\ an.hdr_info # None

\* C15 witness: a stream whose iCCP profile does not inflate, followed by a
\* cICP chunk, has been analyzed; both sections were printed and the summary
\* has the HDR type of the cICP chunk.
C15_Witness ==
  /\ WasAnalyzed /\ an.status = "ok"
  /\ Len(rd.chunks) >= 2
  /\ rd.chunks[1].type = T_iCCP
  /\ IccpFramed(rd.chunks[1].data) /\ IccpBroken(rd.chunks[1].data)
  /\ rd.chunks[2].type = T_cICP
  /\ an.sections = <<1, 2>>
  /\ an.hdr_info[1].hdr_type # None

\* A stream whose iCCP chunk holds a whole 128-byte ICC header has been
\* analyzed: the header fields were decoded and nothing was raised.
C15_WitnessHeader ==
  /\ WasAnalyzed /\ an.status = "ok"
  /\ \E k \in 1..Len(rd.chunks) :
       /\ rd.chunks[k].type = T_iCCP
       /\ IccpFramed(rd.chunks[k].data)
       /\ parse_iccp(rd.chunks[k].data).icc_info # None
       /\ parse_iccp(rd.chunks[k].data).icc_info[1].present
       /\ parse_iccp(rd.chunks[k].data).icc_info[1].profile_size = 128

====
